---- MODULE Spec2Model ----
(***************************************************************************)
(* matknife: conversion of physically-based-rendering textures between a   *)
(* combined metallic+smoothness image and separate metallic and roughness  *)
(* images (src/src/main.rs).  One invocation of the program is a linear    *)
(* pipeline: decode the input file(s), run the per-pixel loop, derive the  *)
(* output name(s), encode the output file(s).  The model follows split()   *)
(* and merge() statement by statement; the image crate's pixel accessors   *)
(* (get_pixel, put_pixel, map, map_with_alpha) are modelled by what they   *)
(* do to the channels of the four 8-bit colour types.                      *)
(***************************************************************************)
EXTENDS Integers, Sequences, FiniteSets, TLC

(***************************************************************************)
(* Bounds of the model.                                                    *)
(***************************************************************************)
\* An input image has at most MaxCells pixels (width * height).
MaxCells == 3
\* An input file stem is a concatenation of at most MaxWords fragments.
MaxWords == 2

\* 0xff, the largest value of a u8 channel.
ByteMax == 255

Byte == 0..ByteMax

(***************************************************************************)
(* Strings are sequences of one-character strings, so that strip_suffix    *)
(* and file_stem work on characters as the code's do.                      *)
(***************************************************************************)
WoodStr == <<"W", "o", "o", "d">>
MetallicStr == <<"M", "e", "t", "a", "l", "l", "i", "c">>
SmoothnessStr == <<"S", "m", "o", "o", "t", "h", "n", "e", "s", "s">>
LowerSmoothnessStr == <<"s", "m", "o", "o", "t", "h", "n", "e", "s", "s">>
RoughnessStr == <<"R", "o", "u", "g", "h", "n", "e", "s", "s">>
UnderscoreStr == <<"_">>
DotPngStr == <<".", "p", "n", "g">>
MetallicSmoothnessStr == MetallicStr \o SmoothnessStr

\* The fragments input file stems are made of.
Fragments == {WoodStr, MetallicStr, SmoothnessStr, LowerSmoothnessStr, UnderscoreStr}

RECURSIVE Concat(_)
Concat(words) ==
    IF words = <<>> THEN <<>> ELSE Head(words) \o Concat(Tail(words))

Stems == {Concat(ws) : ws \in UNION {[1..n -> Fragments] : n \in 1..MaxWords}}

\* Input file names: a stem with the .png extension, or with none.
Extensions == {DotPngStr, <<>>}
FileNames == {s \o e : s \in Stems, e \in Extensions}

Dirs == {"textures", "out"}

\* PathBuf: a directory and a file name.
Path(dir, name) == [dir |-> dir, name |-> name]

\* A strip_suffix that strips every trailing occurrence, as trim_end_matches.
RECURSIVE strip_suffix_repeatedly(_, _)
strip_suffix_repeatedly(s, suffix) ==
    IF /\ Len(s) >= Len(suffix)
       /\ SubSeq(s, Len(s) - Len(suffix) + 1, Len(s)) = suffix
    THEN LET prefix == SubSeq(s, 1, Len(s) - Len(suffix))
             rest == strip_suffix_repeatedly(prefix, suffix)
         IN [some |-> TRUE, value |-> IF rest.some THEN rest.value ELSE prefix]
    ELSE [some |-> FALSE, value |-> <<>>]

\* str::strip_suffix: Some(prefix) when s ends with suffix, None otherwise.
strip_suffix(s, suffix) ==
    IF /\ Len(s) >= Len(suffix)
       /\ SubSeq(s, Len(s) - Len(suffix) + 1, Len(s)) = suffix
    THEN [some |-> TRUE, value |-> SubSeq(s, 1, Len(s) - Len(suffix))]
    ELSE [some |-> FALSE, value |-> <<>>]

\* Index of the last "." of a name, 0 when it has none.
LastDot(name) ==
    LET dots == {i \in 1..Len(name) : name[i] = "."}
    IN IF dots = {} THEN 0 ELSE CHOOSE i \in dots : \A j \in dots : j <= i

\* Path::file_stem: the name up to its last ".", the whole name when it has
\* no "." or only a leading one.
file_stem(path) ==
    LET name == path.name
        dot == LastDot(name)
    IN IF dot <= 1 THEN name ELSE SubSeq(name, 1, dot - 1)

\* The extension of a path: what follows the last ".", if any.
extension(path) ==
    LET name == path.name
        dot == LastDot(name)
    IN IF dot <= 1 THEN <<>> ELSE SubSeq(name, dot + 1, Len(name))

\* Path::with_file_name: the same directory, another file name.
with_file_name(path, name) == Path(path.dir, name)

(***************************************************************************)
(* Images.  A decoded image (DynamicImage) has one of the four 8-bit       *)
(* colour types, a width, a height and its pixels in row-major order, each *)
(* pixel the sequence of its channels.                                     *)
(***************************************************************************)
ColorTypes == {"L8", "La8", "Rgb8", "Rgba8"}

NoImage == [color |-> "None", width |-> 0, height |-> 0, data |-> <<>>]

\* ColorType::has_alpha
has_alpha(color) == color \in {"La8", "Rgba8"}

\* GenericImageView::dimensions
dimensions(img) == <<img.width, img.height>>

\* The place of pixel (x, y) in the row-major data, x and y counted from 0.
Index(img, x, y) == y * img.width + x + 1

\* Coefficients of the image crate's conversion of sRGB to luminance.
rgb_to_luma(r, g, b) == (2126 * r + 7152 * g + 722 * b) \div 10000

\* Pixel::to_rgba of a pixel of the given colour type: a luminance fills the
\* three colour channels, a missing alpha is the maximum.
to_rgba(color, p) ==
    CASE color = "L8" -> <<p[1], p[1], p[1], ByteMax>>
      [] color = "La8" -> <<p[1], p[1], p[1], p[2]>>
      [] color = "Rgb8" -> <<p[1], p[2], p[3], ByteMax>>
      [] color = "Rgba8" -> p

\* The conversion of an Rgba pixel to the image's own colour type
\* (to_luma, to_luma_alpha, to_rgb, to_rgba), as DynamicImage::put_pixel does.
from_rgba(color, q) ==
    CASE color = "L8" -> <<rgb_to_luma(q[1], q[2], q[3])>>
      [] color = "La8" -> <<rgb_to_luma(q[1], q[2], q[3]), q[4]>>
      [] color = "Rgb8" -> <<q[1], q[2], q[3]>>
      [] color = "Rgba8" -> q

\* DynamicImage::get_pixel: always an Rgba<u8>.
get_pixel(img, x, y) == to_rgba(img.color, img.data[Index(img, x, y)])

\* DynamicImage::put_pixel: the Rgba<u8> converted to the image's colour type.
put_pixel(img, x, y, q) ==
    [img EXCEPT !.data[Index(img, x, y)] = from_rgba(img.color, q)]

\* ImageBuffer::put_pixel on the Luma<u8> buffer: the pixel stored as it is.
put_luma(img, x, y, p) == [img EXCEPT !.data[Index(img, x, y)] = p]

\* ImageBuffer::new(width, height): a Luma<u8> buffer of zeroes.
NewLumaBuffer(w, h) ==
    [color |-> "L8", width |-> w, height |-> h, data |-> [i \in 1..(w * h) |-> <<0>>]]

\* Pixel::map_with_alpha on an Rgba pixel: closure f on the colour channels,
\* closure g on alpha.  A closure is a function on the channel values.
map_with_alpha(p, f, g) == <<f[p[1]], f[p[2]], f[p[3]], g[p[4]]>>

(***************************************************************************)
(* split's loop body, lines 43-54.                                         *)
(***************************************************************************)
\* |channel| channel
SplitChannel == [channel \in Byte |-> channel]

\* An alpha closure that returns the alpha it was given.
SplitAlphaKept == [alpha \in Byte |-> alpha]

\* The alpha closure's return value: 0xff.
SplitAlpha == [alpha \in Byte |-> ByteMax]

\* An alpha closure that stores the alpha uninverted.
SplitOutputPixelUninverted(alpha) == <<alpha>>

\* The alpha closure's side effect: output_pixel = Luma([0xff - alpha]).
SplitOutputPixel(alpha) == <<ByteMax - alpha>>

\* A loop body that takes the alpha of the pixel at (0, 0) of the grid it is
\* mutating, whatever the position.
SplitBodyReadsFirstPixel(st, x, y) ==
    LET pixel == get_pixel(st.image, x, y)
        output_pixel == <<ByteMax - get_pixel(st.image, 0, 0)[4]>>
        input_pixel == <<pixel[1], pixel[2], pixel[3], ByteMax>>
    IN [image |-> put_pixel(st.image, x, y, input_pixel),
        alpha_image |-> put_luma(st.alpha_image, x, y, output_pixel)]

\* One run of the loop body at (x, y) on st = [image, alpha_image].
SplitBody(st, x, y) ==
    LET pixel == get_pixel(st.image, x, y)
        output_pixel == SplitOutputPixel(pixel[4])
        input_pixel == map_with_alpha(pixel, SplitChannel, SplitAlpha)
    IN [image |-> put_pixel(st.image, x, y, input_pixel),
        alpha_image |-> put_luma(st.alpha_image, x, y, output_pixel)]

(***************************************************************************)
(* merge's loop body, lines 121-134.                                       *)
(***************************************************************************)
\* value after roughness_pixel.map(|channel| { value = channel; channel }):
\* map runs the closure on every channel of the Rgba pixel in order, the
\* alpha channel last, so value is left holding the last channel.
MergeValue(pixel) == pixel[Len(pixel)]

\* |_channel| 0x00
MergeChannel == [channel \in Byte |-> 0]

\* |_alpha| 0xff - value
MergeAlpha(value) == [alpha \in Byte |-> ByteMax - value]

\* One run of the loop body at (x, y) on st = [metallic_image, roughness_image].
MergeBody(st, x, y) ==
    LET value == MergeValue(get_pixel(st.roughness_image, x, y))
        new_pixel == map_with_alpha(get_pixel(st.metallic_image, x, y),
                                    MergeChannel, MergeAlpha(value))
    IN [metallic_image |-> put_pixel(st.metallic_image, x, y, new_pixel),
        roughness_image |-> st.roughness_image]

\* The loop's positions after (x, y): x runs inside y.
NextPosition(img, x, y) ==
    IF x + 1 < img.width THEN <<x + 1, y>> ELSE <<0, y + 1>>

(***************************************************************************)
(* Files.  The disk maps the paths that exist to their contents: an        *)
(* encoded image, or bytes no decoder accepts.                             *)
(***************************************************************************)
PngFile(img) == [kind |-> "png", img |-> img]
Garbage == [kind |-> "garbage", img |-> NoImage]

\* The disk d with file f at path p.
Put(d, p, f) == [q \in (DOMAIN d) \cup {p} |-> IF q = p THEN f ELSE d[q]]

NoDisk == [q \in {} |-> Garbage]

\* image::open: the format is taken from the path's extension, then the file
\* is read and decoded.
open(d, path) ==
    IF /\ path \in DOMAIN d
       /\ extension(path) = <<"p", "n", "g">>
       /\ d[path].kind = "png"
    THEN [ok |-> TRUE, img |-> d[path].img]
    ELSE [ok |-> FALSE, img |-> NoImage]

(***************************************************************************)
(* The input images: for each colour type and size, a family indexed by a  *)
(* seed in which every channel takes every value of 0..255.  Seed 0 of the *)
(* 2x1 luminance+alpha family is the texture (10,200), (250,0).            *)
(***************************************************************************)
SampleLuma(seed, i) == (10 + 240 * i + 7 * seed) % (ByteMax + 1)
SampleAlpha(seed, i) == (200 + 56 * i + seed) % (ByteMax + 1)
SampleGreen(seed, i) == (90 + 17 * i + 3 * seed) % (ByteMax + 1)
SampleBlue(seed, i) == (170 + 101 * i + 5 * seed) % (ByteMax + 1)

SamplePixel(color, seed, i) ==
    CASE color = "L8" -> <<SampleLuma(seed, i)>>
      [] color = "La8" -> <<SampleLuma(seed, i), SampleAlpha(seed, i)>>
      [] color = "Rgb8" ->
           <<SampleLuma(seed, i), SampleGreen(seed, i), SampleBlue(seed, i)>>
      [] color = "Rgba8" ->
           <<SampleLuma(seed, i), SampleGreen(seed, i), SampleBlue(seed, i),
             SampleAlpha(seed, i)>>

SampleImage(color, w, h, seed) ==
    [color |-> color, width |-> w, height |-> h,
     data |-> [i \in 1..(w * h) |-> SamplePixel(color, seed, i - 1)]]

\* The sizes of the input images: at most MaxCells pixels.
Sizes == {d \in (1..MaxCells) \X (1..MaxCells) : d[1] * d[2] <= MaxCells}

DefaultSplitPath == Path("textures", WoodStr \o MetallicSmoothnessStr \o DotPngStr)
DefaultMetallicPath == Path("textures", WoodStr \o MetallicStr \o DotPngStr)
DefaultRoughnessPath == Path("out", WoodStr \o RoughnessStr \o DotPngStr)
InputPaths == {Path(d, n) : d \in Dirs, n \in FileNames}

\* What may lie at an input path when the names vary: a small image of any
\* colour type, or bytes that do not decode.
SmallFiles == {PngFile(SampleImage(c, 2, 1, 0)) : c \in ColorTypes} \cup {Garbage}

\* The seeds of the metallic images given to merge: every eighth.
MergeSeeds == {seed \in Byte : seed % 8 = 0}

\* The seed of the roughness image that goes with a metallic image's seed.
RoughnessSeed(seed) == (seed + 101) % (ByteMax + 1)

(***************************************************************************)
(* State.                                                                  *)
(***************************************************************************)
VARIABLES
    disk,             \* the file system
    cmd,              \* Args: "split" or "merge"
    options,          \* the subcommand's arguments
    pc,               \* the statement the invocation is at
    error,            \* the message main() fails with, "" while there is none
    image,            \* split: image
    alpha_image,      \* split: alpha_image
    metallic_image,   \* merge: metallic_image
    roughness_image,  \* merge: roughness_image
    x_position,       \* the loops' x_position
    y_position,       \* the loops' y_position
    filename,         \* filename
    disk0,            \* history: the disk when the invocation started
    decoded,          \* history: the images as image::open returned them
    origin            \* history: the texture a round trip started from

vars == <<disk, cmd, options, pc, error, image, alpha_image, metallic_image,
          roughness_image, x_position, y_position, filename, disk0, decoded,
          origin>>

NoDecoded == [combined |-> NoImage, metallic |-> NoImage, roughness |-> NoImage]

AlphaMessage == "Input image does not have an alpha channel!"
SizeMessage == "Input images are not the same size!"
OpenMessage == "image::open failed"
SaveMessage == "save failed"

\* The locals every invocation starts with.
Fresh ==
    /\ error = ""
    /\ image = NoImage
    /\ alpha_image = NoImage
    /\ metallic_image = NoImage
    /\ roughness_image = NoImage
    /\ x_position = 0
    /\ y_position = 0
    /\ filename = <<>>
    /\ decoded = NoDecoded
    /\ origin = NoImage
    /\ disk0 = disk

\* split <file>, the file a texture of the sample family.
InitSplitImages ==
    /\ cmd = "split"
    /\ options = [file |-> DefaultSplitPath]
    /\ \E c \in ColorTypes, d \in Sizes, seed \in Byte :
          disk = Put(NoDisk, DefaultSplitPath, PngFile(SampleImage(c, d[1], d[2], seed)))
    /\ pc = "split_open"
    /\ Fresh

\* split <file>, the file's path varied; the file may be missing.
InitSplitNames ==
    /\ cmd = "split"
    /\ \E p \in InputPaths :
          /\ options = [file |-> p]
          /\ \/ \E f \in SmallFiles : disk = Put(NoDisk, p, f)
             \/ disk = NoDisk
    /\ pc = "split_open"
    /\ Fresh

\* merge <metallic_file> <roughness_file>, textures of the sample family, of
\* the same size or (for the first seed) of any two sizes.
InitMergeImages ==
    /\ cmd = "merge"
    /\ options = [metallic_file |-> DefaultMetallicPath,
                  roughness_file |-> DefaultRoughnessPath]
    /\ \E mc \in ColorTypes, rc \in ColorTypes, d \in Sizes, e \in Sizes, seed \in MergeSeeds :
          /\ d = e \/ seed = 0
          /\ disk = Put(Put(NoDisk, DefaultMetallicPath,
                            PngFile(SampleImage(mc, d[1], d[2], seed))),
                        DefaultRoughnessPath,
                        PngFile(SampleImage(rc, e[1], e[2], RoughnessSeed(seed))))
    /\ pc = "merge_open_metallic"
    /\ Fresh

\* merge <metallic_file> <roughness_file>, the metallic path varied.
InitMergeNames ==
    /\ cmd = "merge"
    /\ \E p \in InputPaths :
          /\ options = [metallic_file |-> p, roughness_file |-> DefaultRoughnessPath]
          /\ \E f \in SmallFiles :
                disk = Put(Put(NoDisk, p, f), DefaultRoughnessPath,
                           PngFile(SampleImage("L8", 2, 1, 0)))
    /\ pc = "merge_open_metallic"
    /\ Fresh

\* merge <metallic_file> <roughness_file>, either file missing or undecodable.
InitMergeFiles ==
    /\ cmd = "merge"
    /\ options = [metallic_file |-> DefaultMetallicPath,
                  roughness_file |-> DefaultRoughnessPath]
    /\ \E f \in SmallFiles, g \in SmallFiles, hasM \in BOOLEAN, hasR \in BOOLEAN :
          disk = [q \in (IF hasM THEN {DefaultMetallicPath} ELSE {})
                          \cup (IF hasR THEN {DefaultRoughnessPath} ELSE {})
                    |-> IF q = DefaultMetallicPath THEN f ELSE g]
    /\ pc = "merge_open_metallic"
    /\ Fresh

Init ==
    \/ InitSplitImages
    \/ InitSplitNames
    \/ InitMergeImages
    \/ InitMergeNames
    \/ InitMergeFiles

(***************************************************************************)
(* Output paths, lines 66-75 and 151-153.                                  *)
(***************************************************************************)
MetallicPngStr == MetallicStr \o DotPngStr
RoughnessPngStr == RoughnessStr \o DotPngStr
MetallicSmoothnessPngStr == MetallicSmoothnessStr \o DotPngStr

\* split, lines 58-62: the stem without a trailing "MetallicSmoothness".
SplitFilename(path) ==
    LET stem == file_stem(path)
        basename == strip_suffix(stem, MetallicSmoothnessStr)
    IN IF basename.some THEN basename.value ELSE stem

\* merge, lines 143-147: the stem without a trailing "Metallic".
MergeFilename(path) ==
    LET stem == file_stem(path)
        basename == strip_suffix(stem, MetallicStr)
    IN IF basename.some THEN basename.value ELSE stem

metallic_path == with_file_name(options.file, filename \o MetallicPngStr)
roughness_path == with_file_name(options.file, filename \o RoughnessPngStr)
merged_path == with_file_name(options.metallic_file, filename \o MetallicSmoothnessPngStr)

\* DynamicImage::save / ImageBuffer::save at path: the file is written, or the
\* save fails.  A failed save is taken to leave the disk as it was.
SaveOk(path, img) == disk' = Put(disk, path, PngFile(img))
SaveFails == disk' = disk

Fail(message) ==
    /\ pc' = "failed"
    /\ error' = message

(***************************************************************************)
(* split, lines 22-81.                                                     *)
(***************************************************************************)
\* Line 27: let mut image = image::open(options.file.clone())?;
SplitOpen ==
    /\ pc = "split_open"
    /\ LET r == open(disk, options.file)
       IN IF r.ok
          THEN /\ image' = r.img
               /\ decoded' = [decoded EXCEPT !.combined = r.img]
               /\ origin' = r.img
               /\ pc' = "split_has_alpha"
               /\ error' = error
          ELSE /\ Fail(OpenMessage)
               /\ UNCHANGED <<image, decoded, origin>>
    /\ UNCHANGED <<disk, cmd, options, alpha_image, metallic_image,
                   roughness_image, x_position, y_position, filename, disk0>>

\* A test that lets every image through.
SplitRequiresAlphaNever(img) == FALSE

\* The test of line 29.
SplitRequiresAlpha(img) == ~has_alpha(img.color)

\* Lines 29-39: the alpha channel is required; then the Luma buffer is made.
SplitHasAlpha ==
    /\ pc = "split_has_alpha"
    /\ IF SplitRequiresAlpha(image)
       THEN /\ Fail(AlphaMessage)
            /\ UNCHANGED alpha_image
       ELSE /\ alpha_image' = NewLumaBuffer(image.width, image.height)
            /\ pc' = "split_loop"
            /\ error' = error
    /\ x_position' = 0
    /\ y_position' = 0
    /\ UNCHANGED <<disk, cmd, options, image, metallic_image, roughness_image,
                   filename, disk0, decoded, origin>>

\* Lines 41-56: one run of the loop body.
SplitPixel ==
    /\ pc = "split_loop"
    /\ y_position < image.height
    /\ LET st == SplitBody([image |-> image, alpha_image |-> alpha_image],
                           x_position, y_position)
           next == NextPosition(image, x_position, y_position)
       IN /\ image' = st.image
          /\ alpha_image' = st.alpha_image
          /\ x_position' = next[1]
          /\ y_position' = next[2]
    /\ UNCHANGED <<disk, cmd, options, pc, error, metallic_image,
                   roughness_image, filename, disk0, decoded, origin>>

\* Lines 58-62, after the loop.
SplitName ==
    /\ pc = "split_loop"
    /\ y_position >= image.height
    /\ filename' = SplitFilename(options.file)
    /\ pc' = "split_save_metallic"
    /\ UNCHANGED <<disk, cmd, options, error, image, alpha_image, metallic_image,
                   roughness_image, x_position, y_position, disk0, decoded, origin>>

\* Lines 66-71: image.save(metallic_path)?;
SplitSaveMetallic ==
    /\ pc = "split_save_metallic"
    /\ \/ /\ SaveOk(metallic_path, image)
          /\ pc' = "split_save_roughness"
          /\ error' = error
       \/ /\ SaveFails
          /\ Fail(SaveMessage)
    /\ UNCHANGED <<cmd, options, image, alpha_image, metallic_image,
                   roughness_image, x_position, y_position, filename, disk0,
                   decoded, origin>>

\* Lines 73-80: alpha_image.save(roughness_path)?; Ok(())
SplitSaveRoughness ==
    /\ pc = "split_save_roughness"
    /\ \/ /\ SaveOk(roughness_path, alpha_image)
          /\ pc' = "done"
          /\ error' = error
       \/ /\ SaveFails
          /\ Fail(SaveMessage)
    /\ UNCHANGED <<cmd, options, image, alpha_image, metallic_image,
                   roughness_image, x_position, y_position, filename, disk0,
                   decoded, origin>>

(***************************************************************************)
(* merge, lines 102-160.                                                   *)
(***************************************************************************)
\* Line 105: let mut metallic_image = image::open(options.metallic_file.clone())?;
MergeOpenMetallic ==
    /\ pc = "merge_open_metallic"
    /\ LET r == open(disk, options.metallic_file)
       IN IF r.ok
          THEN /\ metallic_image' = r.img
               /\ decoded' = [decoded EXCEPT !.metallic = r.img]
               /\ pc' = "merge_open_roughness"
               /\ error' = error
          ELSE /\ Fail(OpenMessage)
               /\ UNCHANGED <<metallic_image, decoded>>
    /\ UNCHANGED <<disk, cmd, options, image, alpha_image, roughness_image,
                   x_position, y_position, filename, disk0, origin>>

\* Line 106: let roughness_image = image::open(options.roughness_file.clone())?;
MergeOpenRoughness ==
    /\ pc = "merge_open_roughness"
    /\ LET r == open(disk, options.roughness_file)
       IN IF r.ok
          THEN /\ roughness_image' = r.img
               /\ decoded' = [decoded EXCEPT !.roughness = r.img]
               /\ pc' = "merge_dimensions"
               /\ error' = error
          ELSE /\ Fail(OpenMessage)
               /\ UNCHANGED <<roughness_image, decoded>>
    /\ UNCHANGED <<disk, cmd, options, image, alpha_image, metallic_image,
                   x_position, y_position, filename, disk0, origin>>

\* A test that compares the widths only.
MergeWidthsDiffer(m, r) == m.width # r.width

\* The test of line 113.
MergeSizesDiffer(m, r) == dimensions(m) # dimensions(r)

\* Lines 113-117: the two images must be of the same size.
MergeDimensions ==
    /\ pc = "merge_dimensions"
    /\ IF MergeSizesDiffer(metallic_image, roughness_image)
       THEN Fail(SizeMessage)
       ELSE /\ pc' = "merge_loop"
            /\ error' = error
    /\ x_position' = 0
    /\ y_position' = 0
    /\ UNCHANGED <<disk, cmd, options, image, alpha_image, metallic_image,
                   roughness_image, filename, disk0, decoded, origin>>

\* Lines 119-136: one run of the loop body.
MergePixel ==
    /\ pc = "merge_loop"
    /\ y_position < metallic_image.height
    /\ LET st == MergeBody([metallic_image |-> metallic_image,
                            roughness_image |-> roughness_image],
                           x_position, y_position)
           next == NextPosition(metallic_image, x_position, y_position)
       IN /\ metallic_image' = st.metallic_image
          /\ x_position' = next[1]
          /\ y_position' = next[2]
    /\ UNCHANGED <<disk, cmd, options, pc, error, image, alpha_image,
                   roughness_image, filename, disk0, decoded, origin>>

\* Lines 138-147, after the loop.
MergeName ==
    /\ pc = "merge_loop"
    /\ y_position >= metallic_image.height
    /\ filename' = MergeFilename(options.metallic_file)
    /\ pc' = "merge_save"
    /\ UNCHANGED <<disk, cmd, options, error, image, alpha_image, metallic_image,
                   roughness_image, x_position, y_position, disk0, decoded, origin>>

\* Lines 151-159: metallic_image.save(merged_path)?; Ok(())
MergeSave ==
    /\ pc = "merge_save"
    /\ \/ /\ SaveOk(merged_path, metallic_image)
          /\ pc' = "done"
          /\ error' = error
       \/ /\ SaveFails
          /\ Fail(SaveMessage)
    /\ UNCHANGED <<cmd, options, image, alpha_image, metallic_image,
                   roughness_image, x_position, y_position, filename, disk0,
                   decoded, origin>>

(***************************************************************************)
(* main, lines 171-182: a second invocation, merge on the two files a      *)
(* successful split has just written.                                      *)
(***************************************************************************)
MergeAfterSplit ==
    /\ pc = "done"
    /\ cmd = "split"
    /\ cmd' = "merge"
    /\ options' = [metallic_file |-> metallic_path, roughness_file |-> roughness_path]
    /\ pc' = "merge_open_metallic"
    /\ error' = ""
    /\ image' = NoImage
    /\ alpha_image' = NoImage
    /\ metallic_image' = NoImage
    /\ roughness_image' = NoImage
    /\ x_position' = 0
    /\ y_position' = 0
    /\ filename' = <<>>
    /\ decoded' = NoDecoded
    /\ disk0' = disk
    /\ UNCHANGED <<disk, origin>>

Next ==
    \/ SplitOpen
    \/ SplitHasAlpha
    \/ SplitPixel
    \/ SplitName
    \/ SplitSaveMetallic
    \/ SplitSaveRoughness
    \/ MergeOpenMetallic
    \/ MergeOpenRoughness
    \/ MergeDimensions
    \/ MergePixel
    \/ MergeName
    \/ MergeSave
    \/ MergeAfterSplit

Spec == Init /\ [][Next]_vars

(***************************************************************************)
(* What the properties speak of.                                           *)
(***************************************************************************)
Positions(img) == (0..(img.width - 1)) \X (0..(img.height - 1))

\* The colour channels of the pixel at pos as the image stores them: its
\* luminance, or its red, green and blue.
ColourAt(img, pos) ==
    LET p == img.data[Index(img, pos[1], pos[2])]
    IN IF has_alpha(img.color) THEN SubSeq(p, 1, Len(p) - 1) ELSE p

\* The luminance of the pixel at pos.
LuminanceAt(img, pos) ==
    LET q == get_pixel(img, pos[1], pos[2])
    IN rgb_to_luma(q[1], q[2], q[3])

\* The alpha the image stores for the pixel at pos; only for has_alpha images.
AlphaAt(img, pos) ==
    LET p == img.data[Index(img, pos[1], pos[2])]
    IN p[Len(p)]

SameSize(a, b) == a.width = b.width /\ a.height = b.height

\* The positions split's loop has been through.
SplitProcessed ==
    IF cmd # "split" \/ alpha_image = NoImage
    THEN {}
    ELSE {pos \in Positions(image) :
            pc = "split_loop" =>
               Index(image, pos[1], pos[2]) < Index(image, x_position, y_position)}

SplitDone == cmd = "split" /\ pc = "done"
MergeDone == cmd = "merge" /\ pc = "done"

\* The image in the file at path; NoImage when there is none.
ImageIn(path) ==
    IF path \in DOMAIN disk /\ disk[path].kind = "png" THEN disk[path].img ELSE NoImage

(***************************************************************************)
(* C1. Split complement law: at every position split has processed, the    *)
(* roughness buffer holds 255 minus the alpha of the input pixel there,    *)
(* and when split is done the roughness file holds a luminance image of    *)
(* the input's size whose every pixel is 255 minus the input pixel's alpha.*)
(***************************************************************************)
SplitComplementLaw ==
    /\ \A pos \in SplitProcessed :
          alpha_image.data[Index(alpha_image, pos[1], pos[2])]
             = <<255 - AlphaAt(decoded.combined, pos)>>
    /\ SplitDone =>
          LET out == ImageIn(roughness_path)
          IN /\ out.color = "L8"
             /\ SameSize(out, decoded.combined)
             /\ \A pos \in Positions(decoded.combined) :
                   LuminanceAt(out, pos) = 255 - AlphaAt(decoded.combined, pos)

\* Split is done on an input whose first pixel has alpha 128, and the
\* roughness file holds 127 there.
SplitComplementWitness ==
    /\ SplitDone
    /\ AlphaAt(decoded.combined, <<0, 0>>) = 128
    /\ LuminanceAt(ImageIn(roughness_path), <<0, 0>>) = 127

SplitPreconditionEnforced ==
    (/\ cmd = "split"
     /\ decoded.combined # NoImage
     /\ decoded.combined.color \notin {"La8", "Rgba8"}
     /\ pc # "split_has_alpha")
    => /\ pc = "failed"
       /\ error = "Input image does not have an alpha channel!"
       /\ image = decoded.combined
       /\ alpha_image = NoImage
       /\ disk = disk0

\* Split has failed on a decoded RGB image.
SplitPreconditionWitness ==
    /\ cmd = "split"
    /\ decoded.combined.color = "Rgb8"
    /\ pc = "failed"
    /\ error = AlphaMessage

(***************************************************************************)
(* C7. Merge precondition enforcement: once merge has decoded two inputs   *)
(* that differ in width or height and passed its test, it has failed with  *)
(* the size message, the metallic image is as decoded and the disk is as   *)
(* it was when the invocation started.                                     *)
(***************************************************************************)
MergePreconditionEnforced ==
    (/\ cmd = "merge"
     /\ decoded.metallic # NoImage
     /\ decoded.roughness # NoImage
     /\ \/ decoded.metallic.width # decoded.roughness.width
        \/ decoded.metallic.height # decoded.roughness.height
     /\ pc # "merge_dimensions")
    => /\ pc = "failed"
       /\ error = "Input images are not the same size!"
       /\ metallic_image = decoded.metallic
       /\ disk = disk0

\* Merge has failed on inputs of the same width and different heights.
MergePreconditionWitness ==
    /\ cmd = "merge"
    /\ pc = "failed"
    /\ error = SizeMessage
    /\ decoded.metallic.width = decoded.roughness.width
    /\ decoded.metallic.height # decoded.roughness.height

(***************************************************************************)
(* C8. No partial output on failure: in every failure state of split the   *)
(* disk is as it was when the invocation started.                          *)
(***************************************************************************)
SplitNoPartialOutput ==
    (cmd = "split" /\ pc = "failed") => disk = disk0

(***************************************************************************)
(* C2. Merge complement law: when merge is done, the combined file holds   *)
(* an image with an alpha channel whose alpha at every position is 255     *)
(* minus the luminance of the roughness input there.                       *)
(***************************************************************************)
MergeComplementLaw ==
    MergeDone =>
       LET out == ImageIn(merged_path)
       IN /\ has_alpha(out.color)
          /\ \A pos \in Positions(decoded.roughness) :
                AlphaAt(out, pos) = 255 - LuminanceAt(decoded.roughness, pos)

(***************************************************************************)
(* C3. Merge luminance preservation: when merge is done, the luminance of  *)
(* the combined file's every pixel is that of the metallic input's.        *)
(***************************************************************************)
MergeLuminancePreserved ==
    MergeDone =>
       LET out == ImageIn(merged_path)
       IN \A pos \in Positions(decoded.metallic) :
             LuminanceAt(out, pos) = LuminanceAt(decoded.metallic, pos)

(***************************************************************************)
(* C5. Round-trip identity: when merge is done on the two files split      *)
(* wrote for a combined texture, the combined file it writes has, at       *)
(* every position, that texture's luminance and alpha.                     *)
(***************************************************************************)
RoundTripIdentity ==
    (MergeDone /\ origin # NoImage) =>
       LET out == ImageIn(merged_path)
       IN /\ SameSize(out, origin)
          /\ \A pos \in Positions(origin) :
                /\ LuminanceAt(out, pos) = LuminanceAt(origin, pos)
                /\ has_alpha(out.color)
                /\ AlphaAt(out, pos) = AlphaAt(origin, pos)

(***************************************************************************)
(* C9. Filename derivation: once split has derived its name, its two       *)
(* output paths are, in the input file's directory, base+"Metallic.png"    *)
(* and base+"Roughness.png", base being the input stem without one         *)
(* trailing "MetallicSmoothness" when it ends with it and the stem         *)
(* otherwise; once merge has derived its name, its output path is, in the  *)
(* metallic file's directory, base+"MetallicSmoothness.png", base being    *)
(* the metallic stem without one trailing "Metallic" when it ends with it  *)
(* and the stem otherwise.  A finished invocation has added exactly these  *)
(* paths to the disk.                                                      *)
(***************************************************************************)
\* The stem of an input path: its name without the ".png" it ends with.
InputStem(path) ==
    LET name == path.name
        n == Len(name)
    IN IF n >= 4 /\ SubSeq(name, n - 3, n) = <<".", "p", "n", "g">>
       THEN SubSeq(name, 1, n - 4)
       ELSE name

\* The stem without one trailing suffix, the stem itself when it does not
\* end with suffix.
ExpectedBase(stem, suffix) ==
    LET cuts == {k \in 0..Len(stem) : SubSeq(stem, 1, k) \o suffix = stem}
    IN IF cuts = {} THEN stem ELSE SubSeq(stem, 1, CHOOSE k \in cuts : TRUE)

ExpectedSplitPaths ==
    LET base == ExpectedBase(InputStem(options.file), MetallicSmoothnessStr)
    IN {[dir |-> options.file.dir, name |-> base \o MetallicStr \o DotPngStr],
        [dir |-> options.file.dir, name |-> base \o RoughnessStr \o DotPngStr]}

ExpectedMergePath ==
    LET base == ExpectedBase(InputStem(options.metallic_file), MetallicStr)
    IN [dir |-> options.metallic_file.dir,
        name |-> base \o MetallicStr \o SmoothnessStr \o DotPngStr]

FilenameDerivation ==
    /\ (cmd = "split" /\ pc \in {"split_save_metallic", "split_save_roughness", "done"})
       => /\ {metallic_path, roughness_path} = ExpectedSplitPaths
          /\ metallic_path.name = ExpectedBase(InputStem(options.file),
                                               MetallicSmoothnessStr)
                                     \o MetallicStr \o DotPngStr
    /\ SplitDone => DOMAIN disk = (DOMAIN disk0) \cup ExpectedSplitPaths
    /\ (cmd = "merge" /\ pc \in {"merge_save", "done"})
       => merged_path = ExpectedMergePath
    /\ MergeDone => DOMAIN disk = (DOMAIN disk0) \cup {ExpectedMergePath}

\* Merge is done on a metallic file whose stem is "Metallic" twice, and has
\* written "MetallicMetallicSmoothness.png" beside it.
FilenameDerivationWitness ==
    /\ MergeDone
    /\ options.metallic_file = Path("out", MetallicStr \o MetallicStr \o DotPngStr)
    /\ Path("out", MetallicStr \o MetallicSmoothnessStr \o DotPngStr) \in DOMAIN disk

(***************************************************************************)
(* C10. Pixel-order independence: when a loop has been through every       *)
(* position, the grids are those that running the loop body once at each   *)
(* position, in any order, makes of the decoded input.                     *)
(***************************************************************************)
\* The orders in which the positions of img can be visited, each once.
Orders(img) ==
    LET P == Positions(img)
        n == img.width * img.height
    IN {o \in [1..n -> P] : \A i, j \in 1..n : i # j => o[i] # o[j]}

RECURSIVE SplitInOrder(_, _)
SplitInOrder(st, order) ==
    IF order = <<>>
    THEN st
    ELSE SplitInOrder(SplitBody(st, Head(order)[1], Head(order)[2]), Tail(order))

RECURSIVE MergeInOrder(_, _)
MergeInOrder(st, order) ==
    IF order = <<>>
    THEN st
    ELSE MergeInOrder(MergeBody(st, Head(order)[1], Head(order)[2]), Tail(order))

PixelOrderIndependence ==
    /\ (cmd = "split" /\ pc = "split_loop" /\ y_position >= image.height)
       => \A o \in Orders(decoded.combined) :
             SplitInOrder([image |-> decoded.combined,
                           alpha_image |-> NewLumaBuffer(decoded.combined.width,
                                                         decoded.combined.height)], o)
                = [image |-> image, alpha_image |-> alpha_image]
    /\ (cmd = "merge" /\ pc = "merge_loop" /\ y_position >= metallic_image.height)
       => \A o \in Orders(decoded.metallic) :
             MergeInOrder([metallic_image |-> decoded.metallic,
                           roughness_image |-> decoded.roughness], o).metallic_image
                = metallic_image

\* Split's loop has been through an image of three pixels, no two of the
\* same alpha.
PixelOrderWitness ==
    /\ cmd = "split"
    /\ pc = "split_loop"
    /\ y_position >= image.height
    /\ image.width * image.height = 3
    /\ Cardinality({AlphaAt(decoded.combined, pos) : pos \in Positions(image)}) = 3

====
